---- MODULE Spec2Model ----
(***************************************************************************)
(* Model of patent_client/uspto/peds/manager.py: the query compilation of  *)
(* USApplicationManager.get_query_params and the pagination loop of        *)
(* USApplicationManager._aget_results / alen.                              *)
(*                                                                         *)
(* Text is modelled as a sequence of string tokens: the field name, the    *)
(* punctuation and every rendered value are tokens, so that "x in text"    *)
(* is token membership and "x in list" is element equality.                *)
(* A filter key "a__b__c" is the token sequence <<"a","b","c">> that       *)
(* k.split("__") gives; the filter mapping is a sequence of <<key, value>> *)
(* items with distinct keys, in the dict's insertion order.                *)
(***************************************************************************)
EXTENDS Integers, Sequences, FiniteSets, TLC

\* ------------------------------------------------------------------ bounds
\* most keys in one filter mapping
MaxKeys == 3
\* backend totals and limits are taken next to the multiples of the page size,
\* up to MaxPages pages; offsets are 0..MaxOffset
MaxPages == 2
MaxOffset == 1

\* page_size=20 in _aget_results
PageSize == 20

\* no error raised
None == "None"
\* an int that is None: config.limit unset, a call's start/rows not passed
Unset == -1
Star == "*"

\* ------------------------------------------------------ python values
\* A scalar travelling through cast_as_datetime: a str, a datetime.date or a
\* datetime.datetime. text is the calendar day (or the raw text of a str that
\* is no date), time is the time of day.
Days == {"2020-01-01", "2020-06-30", "2021-02-03", "2021-12-31"}

Str(text) == [type |-> "str", text |-> text, time |-> "00:00:00"]
Date(day) == [type |-> "date", text |-> day, time |-> "00:00:00"]
DateTime(day, time) == [type |-> "datetime", text |-> day, time |-> time]

\* a filter value: a scalar, or a list/tuple of scalars
Scalar(x) == [seq |-> FALSE, items |-> <<x>>]
List(xs) == [seq |-> TRUE, items |-> xs]

Failed(name) == [error |-> name, value |-> <<>>]
Ok(v) == [error |-> None, value |-> v]

\* dateutil.parser.parse: a str that is a date gives the datetime at midnight,
\* any other text ("*" among them) raises ParserError
dt_parse(date) ==
    IF date.text \in Days THEN Ok(DateTime(date.text, "00:00:00"))
    ELSE Failed("ParserError")

replace_time(date, end_of_day) ==
    DateTime(date.text, IF end_of_day THEN "23:59:59" ELSE "00:00:00")

Parsed(date) ==
    IF date.type = "datetime" THEN Ok(date)
    ELSE IF date.type = "str" THEN dt_parse(date)
    ELSE Ok(DateTime(date.text, "00:00:00"))

ReplaceTime(parsed, end_of_day) ==
    IF parsed.error # None THEN parsed
    ELSE Ok(replace_time(parsed.value, end_of_day))

cast_as_datetime(date, end_of_day) == ReplaceTime(Parsed(date), end_of_day)

\* strftime("%Y-%m-%dT%H:%M:%SZ")
datetime_to_solr(date) == <<date.text, "T", date.time, "Z">>

\* --------------------------------------------------------- QueryFields
FieldNames == {"appl_id", "appEarlyPubNumber", "filing_date", "issue_date"}
DateFieldNames == {"filing_date", "issue_date"}

\* the canonical name of a user-facing name: the names of the registry are
\* their own canonical names (appl_id renders as appl_id:(...))
Canonical(name) == name

\* QueryFields.get: the canonical name with the operator suffixes kept
QueryFields_get(k) ==
    IF Head(k) \in FieldNames THEN Ok(<<Canonical(Head(k))>> \o Tail(k))
    ELSE Failed("UnknownFieldError")

QueryFields_is_date_field(k) == Head(k) \in DateFieldNames

\* the text of a key: its tokens joined by "__"
RECURSIVE KeyText(_)
KeyText(k) ==
    IF Len(k) <= 1 THEN k ELSE <<Head(k), "__">> \o KeyText(Tail(k))

\* ------------------------------------------- get_query_params, by parts
\* one more resolved key in front of the rest, unless either raised
PrependKey(k, v, rest) ==
    IF k.error # None THEN k
    ELSE IF rest.error # None THEN rest
    ELSE Ok(<<(<<k.value, v>>)>> \o rest.value)

RECURSIVE ResolveKeys(_)
\* QueryFields.get over every key of the filter, in order; the first unknown
\* field raises
ResolveKeys(filter) ==
    IF filter = <<>> THEN Ok(<<>>)
    ELSE PrependKey(QueryFields_get(Head(filter)[1]), Head(filter)[2],
                    ResolveKeys(Tail(filter)))

RECURSIVE SelectDate(_, _)
\* date_filters = {QueryFields.get(k): v ... if QueryFields.is_date_field(k)}
SelectDate(filter, resolved) ==
    IF filter = <<>> THEN <<>>
    ELSE (IF QueryFields_is_date_field(Head(filter)[1]) THEN <<Head(resolved)>> ELSE <<>>)
         \o SelectDate(Tail(filter), Tail(resolved))

RECURSIVE SelectNonDate(_, _)
\* non_date_filters = {QueryFields.get(k): v ... if QueryFields.get(k) not in date_filters}
SelectNonDate(resolved, dfs) ==
    IF resolved = <<>> THEN <<>>
    ELSE (IF \E i \in 1..Len(dfs) : dfs[i][1] = Head(resolved)[1] THEN <<>>
          ELSE <<Head(resolved)>>)
         \o SelectNonDate(Tail(resolved), dfs)

\* date_filter_tuples.append((f, op, cast_as_datetime(v)))
OneTuple(f, op, d) ==
    IF d.error # None THEN d ELSE Ok(<< <<f, op, d.value>> >>)

\* the two appends of a (start, end) value
TwoTuples(f, lo, hi) ==
    IF lo.error # None THEN lo
    ELSE IF hi.error # None THEN hi
    ELSE Ok(<< <<f, "gte", lo.value>>, <<f, "lte", hi.value>> >>)

\* DateTuplesOf without the test of the operator against ("gte", "lte")
DateTuplesOf_AnyOperator(k, v) ==
    IF Len(k) > 1 THEN
        IF Len(Tail(k)) > 1 THEN Failed("InvalidFilterError")
        ELSE IF v.seq THEN Failed("InvalidFilterError")
        ELSE OneTuple(Head(k), k[2], cast_as_datetime(v.items[1], FALSE))
    ELSE
        IF v.seq THEN
            IF Len(v.items) # 2 THEN Failed("InvalidFilterError")
            ELSE TwoTuples(k[1], cast_as_datetime(v.items[1], FALSE),
                           cast_as_datetime(v.items[2], FALSE))
        ELSE OneTuple(k[1], "exact", cast_as_datetime(v.items[1], FALSE))

\* one date filter checked and turned into its (field, op, datetime) tuples
DateTuplesOf(k, v) ==
    IF Len(k) > 1 THEN
        IF Len(Tail(k)) > 1 THEN Failed("InvalidFilterError")
        ELSE IF k[2] \notin {"gte", "lte"} THEN Failed("InvalidFilterError")
        ELSE IF v.seq THEN Failed("InvalidFilterError")
        ELSE OneTuple(Head(k), k[2], cast_as_datetime(v.items[1], FALSE))
    ELSE
        IF v.seq THEN
            IF Len(v.items) # 2 THEN Failed("InvalidFilterError")
            ELSE TwoTuples(k[1], cast_as_datetime(v.items[1], FALSE),
                           cast_as_datetime(v.items[2], FALSE))
        ELSE OneTuple(k[1], "exact", cast_as_datetime(v.items[1], FALSE))

\* the tuples of one filter followed by those of the rest, unless either raised
ConcatTuples(one, rest) ==
    IF one.error # None THEN one
    ELSE IF rest.error # None THEN rest
    ELSE Ok(one.value \o rest.value)

RECURSIVE date_filter_tuples(_)
\* the validity loop over date_filters: the first bad filter raises
date_filter_tuples(dfs) ==
    IF dfs = <<>> THEN Ok(<<>>)
    ELSE ConcatTuples(DateTuplesOf(Head(dfs)[1], Head(dfs)[2]),
                      date_filter_tuples(Tail(dfs)))

RECURSIVE FirstValue(_, _, _)
\* next((v for k, op, v in date_filter_tuples if k == k and op == want), "*"):
\* the generator's own k shadows the outer one, so the field test is k == k
FirstValue(tuples, field, want) ==
    IF tuples = <<>> THEN Str(Star)
    ELSE IF Head(tuples)[1] = Head(tuples)[1] /\ Head(tuples)[2] = want
         THEN Head(tuples)[3]
         ELSE FirstValue(Tail(tuples), field, want)

\* the pairing of one tuple: what the if/elif chain adds for it
PairOf(tuples, t) ==
    IF t[2] = "gte" THEN {<<t[1], <<t[3], FirstValue(tuples, t[1], "lte")>> >>}
    ELSE IF t[2] = "lte" THEN {<<t[1], <<FirstValue(tuples, t[1], "gte"), t[3]>> >>}
    ELSE IF t[2] = "exact" THEN {<<t[1], <<t[3], t[3]>> >>}
    ELSE {}

\* query_date_filter_tuples: the set of (field, (start, end))
query_date_filter_tuples(tuples) ==
    UNION {PairOf(tuples, tuples[i]) : i \in 1..Len(tuples)}

\* f"{k}:[{start} TO {end}]", or the error cast_as_datetime raised
RenderRange(k, start, end) ==
    IF start.error # None THEN start
    ELSE IF end.error # None THEN end
    ELSE Ok(<<k, ":", "[">> \o datetime_to_solr(start.value) \o <<"TO">>
            \o datetime_to_solr(end.value) \o <<"]">>)

\* the body of the loop over query_date_filter_tuples
RangeClause(p) ==
    RenderRange(p[1], cast_as_datetime(p[2][1], FALSE), cast_as_datetime(p[2][2], TRUE))

RECURSIVE JoinTokens(_, _)
\* sep.join(parts) for non-empty token sequences
JoinTokens(parts, sep) ==
    IF parts = <<>> THEN <<>>
    ELSE IF Len(parts) = 1 THEN Head(parts)
    ELSE Head(parts) \o <<sep>> \o JoinTokens(Tail(parts), sep)

\* f"{k}:({values})" / f"{k}:({v})"
TermClause(k, v) ==
    KeyText(k) \o <<":", "(">> \o
    JoinTokens([i \in 1..Len(v.items) |-> <<v.items[i].text>>], "OR") \o <<")">>

\* the value of self.config.filter["query"], when the key is there
HasKey(filter, key) == \E i \in 1..Len(filter) : filter[i][1] = key
ValueOf(filter, key) == filter[CHOOSE i \in 1..Len(filter) : filter[i][1] = key][2]

\* a sort token "-name" or "name"
Desc(name) == [desc |-> TRUE, field |-> name]
Asc(name) == [desc |-> FALSE, field |-> name]

\* one more sort clause in front of the rest, unless QueryFields.get raised
PrependSort(f, desc, rest) ==
    IF f.error # None THEN f
    ELSE IF rest.error # None THEN rest
    ELSE Ok(KeyText(f.value) \o <<" ", IF desc THEN "desc" ELSE "asc">> \o rest.value)

RECURSIVE sort_query(_)
\* the order_by loop: clauses appended with no separator between them
sort_query(order_by) ==
    IF order_by = <<>> THEN Ok(<<>>)
    ELSE PrependSort(QueryFields_get(<<Head(order_by).field>>), Head(order_by).desc,
                     sort_query(Tail(order_by)))

\* " AND ".join(query). The range clauses come out of a Python set, whose
\* iteration order is not fixed: the text is kept as the set of its range
\* clauses followed by the sequence of its other clauses.
JoinAnd(ranges, terms) == [ranges |-> ranges, terms |-> terms]

\* Python's "x in list" over the clauses of the list query
ListContains(query, x) ==
    x \in query.ranges \/ \E i \in 1..Len(query.terms) : query.terms[i] = x

\* mm = "0%" if "appEarlyPubNumber" not in query else "90%", where query is
\* the list of clauses the else branch builds; the short-circuit branch never
\* binds it
minimum_match(compiled) ==
    IF ~compiled.bound THEN Failed("UnboundLocalError")
    ELSE Ok(IF ~ListContains(compiled.query, <<"appEarlyPubNumber">>) THEN "0%" ELSE "90%")

\* the loop over the set and the loop over non_date_filters, joined: the first
\* range that fails to render raises
JoinClauses(rendered, terms) ==
    IF \E r \in rendered : r.error # None
    THEN CHOOSE r \in rendered : r.error # None
    ELSE Ok([query_text |-> JoinAnd({r.value : r \in rendered}, terms),
             query |-> JoinAnd({r.value : r \in rendered}, terms),
             bound |-> TRUE])

CompileTuples(tuples, ndfs) ==
    IF tuples.error # None THEN tuples
    ELSE JoinClauses({RangeClause(p) : p \in query_date_filter_tuples(tuples.value)},
                     [i \in 1..Len(ndfs) |-> TermClause(ndfs[i][1], ndfs[i][2])])

CompileFilters(dfs, resolved) ==
    CompileTuples(date_filter_tuples(dfs), SelectNonDate(resolved, dfs))

CompileResolved(filter, resolved) ==
    IF resolved.error # None THEN resolved
    ELSE CompileFilters(SelectDate(filter, resolved.value), resolved.value)

\* what the if/else of lines 68-129 leaves behind: query_text, and the list
\* query when the else branch ran
compiled_query(filter) ==
    IF HasKey(filter, <<"query">>)
    THEN Ok([query_text |-> JoinAnd({}, <<(<<ValueOf(filter, <<"query">>).items[1].text>>)>>),
             query |-> JoinAnd({}, <<>>), bound |-> FALSE])
    ELSE CompileResolved(filter, ResolveKeys(filter))

\* query_data, once mm is there
QueryData(query_text, sort, mm) ==
    IF mm.error # None THEN mm
    ELSE Ok([query |-> query_text, facet |-> FALSE, minimum_match |-> mm.value,
             sort |-> sort])

\* lines 131-150, after the if/else
SortAndMatch(c, sort) ==
    IF c.error # None THEN c
    ELSE IF sort.error # None THEN sort
    ELSE QueryData(c.value.query_text, sort.value, minimum_match(c.value))

\* USApplicationManager.get_query_params: the dict it returns, or the error
\* it raises
get_query_params(filter, order_by) ==
    SortAndMatch(compiled_query(filter), sort_query(order_by))

\* ------------------------------------------------------------ pagination
Min(a, b) == IF a < b THEN a ELSE b

\* get_start_and_row_count(limit, offset, page_size): its i-th window
\* (i = 0, 1, ...), <<start, rows>>, or <<>> once the rows requested reach limit
get_start_and_row_count(lim, off, page_size, i) ==
    IF lim # Unset /\ i * page_size >= lim THEN <<>>
    ELSE <<off + i * page_size,
           IF lim = Unset THEN page_size ELSE Min(page_size, lim - i * page_size)>>

\* ShortPage with <= for <: a full page ends the stream too
ShortPage_OrEqual(page, rows) == Len(page) <= rows

\* ShortPage never true: the loop has no break
ShortPage_Never(page, rows) == FALSE

\* if len(page.applications) < rows: break
ShortPage(page, rows) == Len(page) < rows

\* return min(max_length, self.config.limit) if self.config.limit else max_length
alen_result(max_length, lim) ==
    IF lim # Unset /\ lim # 0 THEN Min(max_length, lim) ELSE max_length

\* ------------------------------------------------------------- the inputs
F == "filing_date"
G == "issue_date"

Items ==
    {<<(<<F>>), Scalar(Str("2020-01-01"))>>,
     <<(<<F>>), List(<<Str("2020-01-01"), Str("2020-06-30")>>)>>,
     <<(<<F>>), List(<<Str("2020-01-01")>>)>>,
     <<(<<F, "gte">>), Scalar(Date("2020-01-01"))>>,
     <<(<<F, "gte">>), List(<<Str("2020-01-01"), Str("2020-06-30")>>)>>,
     <<(<<F, "lte">>), Scalar(DateTime("2020-06-30", "12:30:45"))>>,
     <<(<<F, "gt">>), Scalar(Str("2020-01-01"))>>,
     <<(<<F, "gte", "lte">>), Scalar(Str("2020-01-01"))>>,
     <<(<<G>>), Scalar(Str("2021-02-03"))>>,
     <<(<<G, "gte">>), Scalar(Str("2021-02-03"))>>,
     <<(<<G, "lte">>), Scalar(Str("2021-12-31"))>>,
     <<(<<"appl_id">>), Scalar(Str("12345678"))>>,
     <<(<<"appl_id">>), List(<<Str("12345678"), Str("87654321")>>)>>,
     <<(<<"appEarlyPubNumber">>), Scalar(Str("US20200000001A1"))>>,
     <<(<<"bogus">>), Scalar(Str("x"))>>,
     <<(<<"query">>), Scalar(Str("applId:(12345678)"))>>}

\* the filter mappings: up to MaxKeys items with distinct keys, in any order
FilterMappings ==
    UNION {{m \in [1..n -> Items] : \A i, j \in 1..n : i # j => m[i][1] # m[j][1]}
           : n \in 1..MaxKeys}

OrderBys == {<<>>, <<Desc(F), Asc("appl_id")>>, <<Asc("bogus")>>}

\* the filter of the runs that page through many records
PlainFilter == << <<(<<"appl_id">>), Scalar(Str("12345678"))>> >>

Totals == {k * PageSize + d : k \in 0..MaxPages, d \in {-1, 0, 1}} \cap Nat
Limits == {Unset} \cup Totals
Offsets == 0..MaxOffset

\* ---------------------------------------------------------------- state
VARIABLES
    filter,        \* self.config.filter
    order_by,      \* self.config.order_by
    limit,         \* self.config.limit (Unset when None)
    offset,        \* self.config.offset
    numFound,      \* the records the backend holds for the query: 0..numFound-1
    faithful,      \* whether the backend always returns every record of a window
    streamPc,      \* where _aget_results is: start, loop, awaiting, yielding, done, failed
    streamError,   \* the error _aget_results raised
    query_params,  \* _aget_results' query_params
    windowIdx,     \* the windows taken from get_start_and_row_count so far
    window,        \* start, rows of the current window
    page,          \* page.applications of the current window
    pageIdx,       \* the next record of page to yield
    yielded,       \* the records yielded to the consumer so far
    outstanding,   \* the stream's create_query calls awaiting their response
    calls,         \* every create_query call issued: who, start, rows
    returned,      \* the lengths of the pages returned to the stream
    alenPc,        \* where alen is: start, awaiting, done, failed
    alenError,     \* the error alen raised
    alenValue      \* what alen returned

vars == <<filter, order_by, limit, offset, numFound, faithful, streamPc, streamError,
          query_params, windowIdx, window, page, pageIdx, yielded, outstanding, calls,
          returned, alenPc, alenError, alenValue>>

config == <<filter, order_by, limit, offset, numFound, faithful>>
streamVars == <<streamPc, streamError, query_params, windowIdx, window, page, pageIdx,
                yielded, outstanding, returned>>
alenVars == <<alenPc, alenError, alenValue>>

NoParams == [query |-> JoinAnd({}, <<>>), facet |-> FALSE, minimum_match |-> "", sort |-> <<>>]

Init ==
    /\ \/ /\ filter \in FilterMappings
          /\ order_by \in OrderBys
          /\ limit = Unset
          /\ offset = 0
          /\ numFound = 1
          /\ faithful = TRUE
       \/ /\ filter = PlainFilter
          /\ order_by = <<>>
          /\ limit \in Limits
          /\ offset \in Offsets
          /\ numFound \in Totals
          /\ faithful \in BOOLEAN
    /\ streamPc = "start"
    /\ streamError = None
    /\ query_params = NoParams
    /\ windowIdx = 0
    /\ window = <<0, 0>>
    /\ page = <<>>
    /\ pageIdx = 1
    /\ yielded = <<>>
    /\ outstanding = 0
    /\ calls = <<>>
    /\ returned = <<>>
    /\ alenPc = "start"
    /\ alenError = None
    /\ alenValue = 0

\* ------------------------------------------------------------ the backend
\* the records of window (start, rows) in the backend's order
BackendPage(start, rows) ==
    LET n == IF start >= numFound THEN 0 ELSE Min(rows, numFound - start)
    IN  [i \in 1..n |-> start + i - 1]

\* the pages a response to (start, rows) can carry: the whole window, or, from
\* a backend that falls short, a shorter prefix of it
Responses(start, rows) ==
    LET full == BackendPage(start, rows)
    IN  IF faithful THEN {full}
        ELSE {SubSeq(full, 1, n) : n \in {m \in {0, 12, Len(full) - 1, Len(full)} : 0 <= m /\ m <= Len(full)}}

\* --------------------------------------------------------- _aget_results
\* query_params = self.get_query_params() raises
StreamCompileFails ==
    /\ streamPc = "start"
    /\ \E r \in {get_query_params(filter, order_by)} :
        /\ r.error # None
        /\ streamError' = r.error
    /\ streamPc' = "failed"
    /\ UNCHANGED <<config, query_params, windowIdx, window, page, pageIdx, yielded,
                   outstanding, calls, returned, alenVars>>

\* query_params = self.get_query_params() returns
StreamCompile ==
    /\ streamPc = "start"
    /\ \E r \in {get_query_params(filter, order_by)} :
        /\ r.error = None
        /\ query_params' = r.value
    /\ streamPc' = "loop"
    /\ UNCHANGED <<config, streamError, windowIdx, window, page, pageIdx, yielded,
                   outstanding, calls, returned, alenVars>>

\* AtLoopHead without waiting for the page to be yielded whole: the next
\* window is requested while records of the page are still to be yielded
AtLoopHead_Eager ==
    \/ streamPc = "loop"
    \/ /\ streamPc = "yielding"
       /\ ~ShortPage(page, window[2])

\* the stream stands at the head of the for loop: after compiling, or after a
\* page that was not short has been yielded whole
AtLoopHead ==
    \/ streamPc = "loop"
    \/ /\ streamPc = "yielding"
       /\ pageIdx > Len(page)
       /\ ~ShortPage(page, window[2])

\* the for loop takes the next window and awaits api.create_query for it
StreamFetch ==
    /\ AtLoopHead
    /\ \E w \in {get_start_and_row_count(limit, offset, PageSize, windowIdx)} :
        /\ w # <<>>
        /\ window' = w
        /\ calls' = Append(calls, [by |-> "stream", start |-> w[1], rows |-> w[2]])
    /\ windowIdx' = windowIdx + 1
    /\ outstanding' = outstanding + 1
    /\ streamPc' = "awaiting"
    /\ UNCHANGED <<config, streamError, query_params, page, pageIdx, yielded, returned,
                   alenVars>>

\* the for loop finds no window left
StreamExhausted ==
    /\ AtLoopHead
    /\ get_start_and_row_count(limit, offset, PageSize, windowIdx) = <<>>
    /\ streamPc' = "done"
    /\ UNCHANGED <<config, streamError, query_params, windowIdx, window, page, pageIdx,
                   yielded, outstanding, calls, returned, alenVars>>

\* the awaited create_query returns its page
StreamPage ==
    /\ streamPc = "awaiting"
    /\ \E p \in Responses(window[1], window[2]) :
        /\ page' = p
        /\ returned' = Append(returned, Len(p))
    /\ pageIdx' = 1
    /\ outstanding' = outstanding - 1
    /\ streamPc' = "yielding"
    /\ UNCHANGED <<config, streamError, query_params, windowIdx, window, yielded, calls,
                   alenVars>>

\* yield app
StreamYield ==
    /\ streamPc = "yielding"
    /\ pageIdx <= Len(page)
    /\ yielded' = Append(yielded, page[pageIdx])
    /\ pageIdx' = pageIdx + 1
    /\ UNCHANGED <<config, streamPc, streamError, query_params, windowIdx, window, page,
                   outstanding, calls, returned, alenVars>>

\* if len(page.applications) < rows: break
StreamBreak ==
    /\ streamPc = "yielding"
    /\ pageIdx > Len(page)
    /\ ShortPage(page, window[2])
    /\ streamPc' = "done"
    /\ UNCHANGED <<config, streamError, query_params, windowIdx, window, page, pageIdx,
                   yielded, outstanding, calls, returned, alenVars>>

\* ------------------------------------------------------------------ alen
\* self.get_query_params() raises
AlenCompileFails ==
    /\ alenPc = "start"
    /\ \E r \in {get_query_params(filter, order_by)} :
        /\ r.error # None
        /\ alenError' = r.error
    /\ alenPc' = "failed"
    /\ UNCHANGED <<config, streamVars, calls, alenValue>>

\* await api.create_query(**self.get_query_params()): no start, no rows
AlenFetch ==
    /\ alenPc = "start"
    /\ get_query_params(filter, order_by).error = None
    /\ calls' = Append(calls, [by |-> "alen", start |-> Unset, rows |-> Unset])
    /\ alenPc' = "awaiting"
    /\ UNCHANGED <<config, streamVars, alenError, alenValue>>

\* .num_found, clamped
AlenReturn ==
    /\ alenPc = "awaiting"
    /\ alenValue' = alen_result(numFound, limit)
    /\ alenPc' = "done"
    /\ UNCHANGED <<config, streamVars, calls, alenError>>

\* a step of the for loop of _aget_results
LoopStep ==
    \/ StreamFetch
    \/ StreamExhausted
    \/ StreamPage
    \/ StreamYield
    \/ StreamBreak

Next ==
    \/ StreamCompileFails
    \/ StreamCompile
    \/ StreamFetch
    \/ StreamExhausted
    \/ StreamPage
    \/ StreamYield
    \/ StreamBreak
    \/ AlenCompileFails
    \/ AlenFetch
    \/ AlenReturn

Spec == Init /\ [][Next]_vars

\* ================================================================ claims
\* the vocabulary of the claims
Compiled == streamPc \notin {"start", "failed"}
DayStart(d) == <<d.text, "T", "00:00:00", "Z">>
DayEnd(d) == <<d.text, "T", "23:59:59", "Z">>
RangeText(f, lo, hi) == <<f, ":", "[">> \o lo \o <<"TO">> \o hi \o <<"]">>
ClausesFor(f) == {c \in query_params.query.ranges : c[1] = f}
ScalarAt(key) == ValueOf(filter, key).items[1]

\* the field name occurs in the query text
TextContains(text, name) ==
    \/ \E c \in text.ranges : \E i \in 1..Len(c) : c[i] = name
    \/ \E j \in 1..Len(text.terms) : \E i \in 1..Len(text.terms[j]) : text.terms[j][i] = name

\* a filter item of a shape the compiler rejects: an unknown field, or a date
\* key with two suffixes, with a suffix other than gte/lte, with a sequence
\* under an operator, or with a sequence whose length is not 2
MalformedItem(it) ==
    LET k == it[1]
        v == it[2]
    IN  \/ Head(k) \notin FieldNames
        \/ /\ Head(k) \in DateFieldNames
           /\ \/ Len(k) > 2
              \/ Len(k) = 2 /\ k[2] \notin {"gte", "lte"}
              \/ Len(k) = 2 /\ v.seq
              \/ Len(k) = 1 /\ v.seq /\ Len(v.items) # 2
SortKnown == \A i \in 1..Len(order_by) : order_by[i].field \in FieldNames
MalformedInput ==
    \/ ~HasKey(filter, <<"query">>) /\ \E i \in 1..Len(filter) : MalformedItem(filter[i])
    \/ ~SortKnown
QueryShapeErrors == {"InvalidFilterError", "UnknownFieldError"}

StreamCalls == SelectSeq(calls, LAMBDA c : c.by = "stream")
AlenCalls == SelectSeq(calls, LAMBDA c : c.by = "alen")
RECURSIVE SumSeq(_)
SumSeq(q) == IF q = <<>> THEN 0 ELSE Head(q) + SumSeq(Tail(q))
IsPrefix(a, b) == Len(a) <= Len(b) /\ a = SubSeq(b, 1, Len(a))

\* the records at positions offset .. min(offset+limit, numFound)-1
ExpectedRecords ==
    LET hi == IF limit = Unset THEN numFound ELSE Min(offset + limit, numFound)
    IN  [i \in 1..(IF hi > offset THEN hi - offset ELSE 0) |-> offset + i - 1]

\* a page came back with fewer records than the rows asked for
ShortSeen == \E i \in 1..Len(returned) : returned[i] < StreamCalls[i].rows

\* C1 (as claimed): once compiled, a date field given both f__gte=A and
\* f__lte=B as separate keys (and no value under the bare key f) has exactly
\* one range clause, [A at 00:00:00 TO B at 23:59:59].
C1_OneMergedClause ==
    \A f \in DateFieldNames :
        (/\ Compiled
         /\ HasKey(filter, <<f, "gte">>) /\ HasKey(filter, <<f, "lte">>)
         /\ ~HasKey(filter, <<f>>))
        => ClausesFor(f) = {RangeText(f, DayStart(ScalarAt(<<f, "gte">>)),
                                      DayEnd(ScalarAt(<<f, "lte">>)))}

\* C2 (as claimed): a well-formed filter giving a date field only f__gte=A
\* compiles, and the clause of f is [A at 00:00:00 TO *].
C2_OpenUpperBound ==
    \A f \in DateFieldNames :
        (/\ streamPc # "start"
         /\ ~MalformedInput /\ ~HasKey(filter, <<"query">>)
         /\ HasKey(filter, <<f, "gte">>)
         /\ ~HasKey(filter, <<f, "lte">>) /\ ~HasKey(filter, <<f>>))
        => /\ streamPc # "failed"
           /\ ClausesFor(f) = {RangeText(f, DayStart(ScalarAt(<<f, "gte">>)), <<Star>>)}

\* C3 (as claimed): with the key 'query' in the filter (and a sort the registry
\* knows), get_query_params returns, and its 'query' is the caller's value.
C3_RawQueryVerbatim ==
    (streamPc # "start" /\ HasKey(filter, <<"query">>) /\ SortKnown)
    => /\ streamPc # "failed"
       /\ query_params.query = JoinAnd({}, <<(<<ScalarAt(<<"query">>).text>>)>>)

\* C7 (as claimed): minimum_match is 90% when appEarlyPubNumber occurs in the
\* compiled query text and 0% when it does not.
C7_MinimumMatch ==
    Compiled =>
        query_params.minimum_match =
            (IF TextContains(query_params.query, "appEarlyPubNumber") THEN "90%" ELSE "0%")

\* C8 (as claimed): alen issues one call with no start/rows and returns
\* min(total, limit) for every limit >= 0, the total when limit is unset.
C8_AlenClamped ==
    alenPc = "done" =>
        /\ AlenCalls = <<[by |-> "alen", start |-> Unset, rows |-> Unset]>>
        /\ alenValue = (IF limit = Unset THEN numFound ELSE Min(numFound, limit))

\* C10 (as claimed, a limit of 0 left aside): against a faithful backend, alen
\* returns the number of records the stream yields when iterated to its end.
C10_AlenIsStreamLength ==
    (faithful /\ limit # 0 /\ alenPc = "done" /\ streamPc = "done")
    => alenValue = Len(yielded)

\* C4: against a faithful backend, with limit unset or positive, the stream
\* yields the records at offset .. min(offset+limit, numFound)-1 in backend
\* order, each once: what it has yielded is always a prefix of them, and all of
\* them when it has ended; until it has ended the loop can always take a step.
C4_YieldsTheWindow ==
    (faithful /\ limit # 0) =>
        /\ IsPrefix(yielded, ExpectedRecords)
        /\ streamPc = "done" => yielded = ExpectedRecords
        /\ Compiled => (streamPc = "done" \/ ENABLED LoopStep)

\* C4 witness: a stream that ended after more than one page, cut by its limit
\* before the backend's last record, from a positive offset
C4_Witness ==
    /\ faithful /\ streamPc = "done"
    /\ offset > 0 /\ limit > PageSize /\ offset + limit < numFound
    /\ Len(yielded) = limit

\* C5: once a page shorter than the rows asked for has come back, the stream
\* only yields and ends: no further call is issued, its only steps are the
\* yields of that page and the break, and when it has ended the records of that
\* page are the last ones it yielded.
C5_ShortPageEndsStream ==
    /\ [](ShortSeen =>
            /\ streamPc \in {"yielding", "done"}
            /\ streamPc = "done" \/ ENABLED (StreamYield \/ StreamBreak)
            /\ streamPc = "done" =>
                /\ Len(yielded) = SumSeq(returned)
                /\ SubSeq(yielded, Len(yielded) - Len(page) + 1, Len(yielded)) = page)
    /\ [][ShortSeen => (StreamCalls' = StreamCalls /\ streamPc' \in {"yielding", "done"})]_vars

\* C5 witness: the second page came back short although the backend holds
\* more records, and the stream ended having yielded it
C5_Witness ==
    /\ ShortSeen /\ streamPc = "done"
    /\ Len(returned) = 2 /\ returned[2] > 0
    /\ window[1] + returned[2] < numFound
    /\ Len(StreamCalls) = 2

\* C6: a malformed filter or sort never reaches the fetch capability: no
\* create_query call is ever issued, the stream and alen, once run, have
\* failed, and no run has both a query-shape error and a create_query call.
C6_FailsBeforeFetch ==
    /\ MalformedInput =>
        /\ calls = <<>>
        /\ streamPc \in {"start", "failed"}
        /\ alenPc \in {"start", "failed"}
    /\ (streamError \in QueryShapeErrors \/ alenError \in QueryShapeErrors) => calls = <<>>

\* C6 witness: a date filter with a suffix other than gte/lte, refused by both
C6_Witness ==
    /\ \E i \in 1..Len(filter) : Len(filter[i][1]) = 2 /\ filter[i][1][2] = "gt"
    /\ streamPc = "failed" /\ alenPc = "failed"
    /\ streamError = "InvalidFilterError"

\* C9: the stream has at most one create_query call outstanding, its calls go
\* up strictly in start offset, and while a call is outstanding every record of
\* every page returned before has been yielded.
C9_OneFetchAtATime ==
    /\ outstanding <= 1
    /\ (outstanding = 1) = (streamPc = "awaiting")
    /\ \A i \in 1..(Len(StreamCalls) - 1) : StreamCalls[i].start < StreamCalls[i + 1].start
    /\ streamPc = "awaiting" =>
        /\ Len(returned) = Len(StreamCalls) - 1
        /\ Len(yielded) = SumSeq(returned)

\* C9 witness: the third call is outstanding, two pages having been yielded
C9_Witness ==
    /\ streamPc = "awaiting" /\ outstanding = 1
    /\ Len(StreamCalls) = 3
    /\ Len(yielded) = 2 * PageSize

====
